---- MODULE Spec2Model ----
\* A model of maps/svg_to_template.py: the SVG path parser, the ring
\* simplifier, province extraction, identifier assignment, adjacency
\* detection and the neighbour lists of the template.
\*
\* Text is a sequence of one-character strings, over the printable ASCII
\* characters and the white space characters \t, \n, \r and \f.  A Python
\* float is a binary number of 53 significant bits, kept bit by bit: its
\* sign, its integer part and the bits of its fraction; the conversion from
\* decimal text and the addition round to the nearest such number, a tie
\* to the even one, as IEEE 754 binary64 does.  The integer part stays in
\* the integers of the checker (below 2^31); a numeral of 310 digits or
\* more before the point is inf, and the sum of inf and -inf is nan.
\* Numbers too small to be normal (below 2^-1022) are not met.  The answers of the geometry library
\* to simplify() and its failure on a pair of polygons are choices of the
\* environment, and so are the names of the coastal provinces.
EXTENDS Integers, Sequences, FiniteSets, TLC

VARIABLES pc,            \* the phase of the operation under way
          path_data,     \* parse_svg_path_to_coords: the argument
          parse_ret,     \* parse_svg_path_to_coords: the outcome
          simp_in,       \* simplify_coords: arguments and the library's answers
          simp_ret,      \* simplify_coords: the outcome
          elements,      \* extract_provinces_from_svg: the path elements
          ex_idx,        \* extract_provinces_from_svg: the loop index
          ex_provinces,  \* extract_provinces_from_svg: the province list
          id_provinces,  \* assign_province_ids: the province list
          id_idx,        \* assign_province_ids: the loop index
          provinces,     \* create_template_json: the province list
          fail_pair,     \* the pair on which the geometry engine raises
          polygons,      \* detect_neighbors: id -> polygon
          province_ids,  \* detect_neighbors: list(polygons.keys())
          pair_k,        \* detect_neighbors: pairs of the loop already done
          neighbors,     \* detect_neighbors: id -> list of ids
          coastal_names, \* main: the names of the coastal provinces
          template       \* create_template_json: the provinces emitted

vars == <<pc, path_data, parse_ret, simp_in, simp_ret, elements, ex_idx,
          ex_provinces, id_provinces, id_idx, provinces, fail_pair, polygons,
          province_ids, pair_k, neighbors, coastal_names, template>>

parseVars == <<path_data, parse_ret>>
simpVars == <<simp_in, simp_ret>>
exVars == <<elements, ex_idx, ex_provinces>>
idVars == <<id_provinces, id_idx>>
nbVars == <<provinces, fail_pair, polygons, province_ids, pair_k, neighbors,
            coastal_names, template>>

None == "None"

\* ------------------------------------------------------------------
\* Bounds of the model.
\* ------------------------------------------------------------------

\* Commands per generated path string.
MaxCmds == 2

\* Points of the rings given to simplify_coords.
MaxRing == 6

\* Provinces given to assign_province_ids.
MaxIdProvinces == 28

\* Provinces given to create_template_json.
MaxProvinces == 3

\* Path elements given to extract_provinces_from_svg.
MaxPaths == 3

\* ------------------------------------------------------------------
\* Generic helpers.
\* ------------------------------------------------------------------

Min(S) == CHOOSE x \in S : \A y \in S : x <= y

Max(S) == CHOOSE x \in S : \A y \in S : x >= y

Range(s) == {s[i] : i \in DOMAIN s}

\* ------------------------------------------------------------------
\* parse_svg_path_to_coords
\* ------------------------------------------------------------------

DigitChars == <<"0", "1", "2", "3", "4", "5", "6", "7", "8", "9">>

IsDigit(c) == c \in Range(DigitChars)

DigitVal(c) == (CHOOSE i \in DOMAIN DigitChars : DigitChars[i] = c) - 1

\* \s of the regular expressions and the white space of str.strip(), among
\* the characters of the model's text (\v and the white space beyond ASCII
\* cannot be written in a string here).
IsSpace(c) == c \in {" ", "\t", "\n", "\r", "\f"}

\* [MLZmlz]
IsCmd(c) == c \in {"M", "L", "Z", "m", "l", "z"}

\* [\d\s,.-]
IsArgChar(c) == IsDigit(c) \/ IsSpace(c) \/ c \in {",", ".", "-"}

\* str.strip()
Strip(s) ==
  LET keep == {i \in DOMAIN s : ~IsSpace(s[i])}
  IN  IF keep = {} THEN <<>> ELSE SubSeq(s, Min(keep), Max(keep))

\* re.sub(r'\s+', ' ', s): of every run of white space the first character
\* stays, as a blank.
SubSpaces(s) ==
  LET marked == [i \in DOMAIN s |->
                   [c |-> IF IsSpace(s[i]) THEN " " ELSE s[i],
                    drop |-> IsSpace(s[i]) /\ i > 1 /\ IsSpace(s[i - 1])]]
      kept == SelectSeq(marked, LAMBDA m : ~m.drop)
  IN  [i \in DOMAIN kept |-> kept[i].c]

\* The first index from i on at which s leaves the spaces (Len(s)+1 if none).
SpaceEnd(s, i) == Min({j \in i..(Len(s) + 1) : j = Len(s) + 1 \/ ~IsSpace(s[j])})

\* The first index from i on at which s leaves the digits.
DigitEnd(s, i) == Min({j \in i..(Len(s) + 1) : j = Len(s) + 1 \/ ~IsDigit(s[j])})

\* The first index from i on at which s leaves [\d\s,.-].
ArgEnd(s, i) == Min({j \in i..(Len(s) + 1) : j = Len(s) + 1 \/ ~IsArgChar(s[j])})

\* re.findall(r'([MLZmlz])\s*([\d\s,.-]+)?', s), scanning from index i.
RECURSIVE FindCommands(_, _)
FindCommands(s, i) ==
  LET at == {k \in i..Len(s) : IsCmd(s[k])}
  IN  IF at = {} THEN <<>>
      ELSE LET k == Min(at)
               a == SpaceEnd(s, k + 1)
               b == ArgEnd(s, a)
           IN  <<[cmd |-> s[k], args |-> SubSeq(s, a, b - 1)]>>
                 \o FindCommands(s, b)

\* ---- Python floats ----

\* The significant bits of a float.
MantissaBits == 53

\* The number of bits of a natural number.
RECURSIVE BitLen(_)
BitLen(n) == IF n = 0 THEN 0 ELSE 1 + BitLen(n \div 2)

\* A bit sequence without its trailing zeros.
Trim(bits) ==
  LET ones == {i \in DOMAIN bits : bits[i] = 1}
  IN  IF ones = {} THEN <<>> ELSE SubSeq(bits, 1, Max(ones))

\* The float of sign neg and magnitude int + 0.frac (in binary); zero
\* carries no sign (-0.0 == 0.0).
MkFloat(neg, int, frac) ==
  LET f == Trim(frac)
  IN  [kind |-> "finite", neg |-> neg /\ (int # 0 \/ f # <<>>),
       int |-> int, frac |-> f]

\* inf and -inf
Inf(neg) == [kind |-> "inf", neg |-> neg, int |-> 0, frac |-> <<>>]

\* nan
NaN == [kind |-> "nan", neg |-> FALSE, int |-> 0, frac |-> <<>>]

IsFinite(v) == v.kind = "finite"

\* The int 0 the cursor starts at, and the float of an integer.
FromInt(n) == IF n < 0 THEN MkFloat(TRUE, -n, <<>>) ELSE MkFloat(FALSE, n, <<>>)

\* A bit sequence, read as a binary number, plus one: the bits and the
\* carry out of them.  A bit changes when all the bits after it are 1.
Incr(bits) ==
  [carry |-> IF \A i \in DOMAIN bits : bits[i] = 1 THEN 1 ELSE 0,
   bits |-> [i \in DOMAIN bits |->
               IF \A j \in (i + 1)..Len(bits) : bits[j] = 1
               THEN 1 - bits[i] ELSE bits[i]]]

\* The float nearest to the magnitude int + 0.frac: its first 53
\* significant bits, rounded on the bits after them, a tie to the even
\* neighbour.
Nearest(neg, int, frac) ==
  LET ones == {i \in DOMAIN frac : frac[i] = 1}
      K == IF int > 0 THEN MantissaBits - BitLen(int)
           ELSE IF ones = {} THEN 0 ELSE Min(ones) - 1 + MantissaBits
  IN  IF Len(frac) <= K THEN MkFloat(neg, int, frac)
      ELSE LET kept == SubSeq(frac, 1, K)
               guard == frac[K + 1]
               sticky == \E i \in (K + 2)..Len(frac) : frac[i] = 1
               odd == IF K = 0 THEN int % 2 = 1 ELSE kept[K] = 1
           IN  IF guard = 1 /\ (sticky \/ odd)
               THEN MkFloat(neg, int + Incr(kept).carry, Incr(kept).bits)
               ELSE MkFloat(neg, int, kept)

\* The decimal fraction of digits D in groups of four digits.
Groups(D) ==
  LET d(i) == IF i <= Len(D) THEN D[i] ELSE 0
  IN  [g \in 1..((Len(D) + 3) \div 4) |->
         1000 * d(4 * g - 3) + 100 * d(4 * g - 2) + 10 * d(4 * g - 1) + d(4 * g)]

\* The bits of the binary fraction made at a time.
ChunkBits == 16

\* 2^16 times a decimal fraction given by its groups: the groups of the
\* fraction of the product and the carry into the units.
RECURSIVE ShiftDec(_)
ShiftDec(G) ==
  IF G = <<>> THEN [carry |-> 0, groups |-> <<>>]
  ELSE LET r == ShiftDec(Tail(G))
           v == (2 ^ ChunkBits) * Head(G) + r.carry
       IN  [carry |-> v \div 10000, groups |-> <<v % 10000>> \o r.groups]

\* The 16 bits of a number below 2^16.
BitsOf(c) == [i \in 1..ChunkBits |-> (c \div (2 ^ (ChunkBits - i))) % 2]

\* The binary expansion of a decimal fraction, 16 bits at a time, until
\* `need` bits counted from the first significant one are made; a last 1
\* stands for a remainder left.
RECURSIVE FracBits(_, _, _)
FracBits(G, need, started) ==
  IF \A i \in DOMAIN G : G[i] = 0 THEN <<>>
  ELSE IF need <= 0 THEN <<1>>
  ELSE LET r == ShiftDec(G)
           made == IF started THEN ChunkBits ELSE BitLen(r.carry)
       IN  BitsOf(r.carry) \o FracBits(r.groups, need - made, started \/ r.carry > 0)

\* The bits b padded with zeros to the length n.
Pad(b, n) == b \o [i \in 1..(n - Len(b)) |-> 0]

\* a + b of two bit sequences of one length: the bits and the carry out.
\* The carry into a place comes from the nearest place after it that does
\* not pass a carry on.
AddBits(a, b) ==
  LET n == Len(a)
      into(i) == \E j \in (i + 1)..n :
                   /\ a[j] + b[j] = 2
                   /\ \A k \in (i + 1)..(j - 1) : a[k] + b[k] = 1
  IN  [carry |-> IF into(0) THEN 1 ELSE 0,
       bits |-> [i \in 1..n |-> (a[i] + b[i] + (IF into(i) THEN 1 ELSE 0)) % 2]]

\* a - b of two bit sequences of one length: the bits and the borrow.
SubBits(a, b) ==
  LET n == Len(a)
      into(i) == \E j \in (i + 1)..n :
                   /\ a[j] < b[j]
                   /\ \A k \in (i + 1)..(j - 1) : a[k] = b[k]
  IN  [carry |-> IF into(0) THEN 1 ELSE 0,
       bits |-> [i \in 1..n |-> (a[i] - b[i] - (IF into(i) THEN 1 ELSE 0)) % 2]]

\* |a| < |b|
MagLess(a, b) ==
  LET n == IF Len(a.frac) > Len(b.frac) THEN Len(a.frac) ELSE Len(b.frac)
      fa == Pad(a.frac, n)
      fb == Pad(b.frac, n)
      diff == {i \in 1..n : fa[i] # fb[i]}
  IN  \/ a.int < b.int
      \/ a.int = b.int /\ diff # {} /\ fa[Min(diff)] < fb[Min(diff)]

\* |a| - |b| with the sign neg, for |a| >= |b|
MagSub(neg, a, b) ==
  LET n == IF Len(a.frac) > Len(b.frac) THEN Len(a.frac) ELSE Len(b.frac)
      r == SubBits(Pad(a.frac, n), Pad(b.frac, n))
  IN  Nearest(neg, a.int - b.int - r.carry, r.bits)

\* a + b of two finite floats
FiniteAdd(a, b) ==
  IF a.neg = b.neg
  THEN LET n == IF Len(a.frac) > Len(b.frac) THEN Len(a.frac) ELSE Len(b.frac)
           r == AddBits(Pad(a.frac, n), Pad(b.frac, n))
       IN  Nearest(a.neg, a.int + b.int + r.carry, r.bits)
  ELSE IF MagLess(a, b) THEN MagSub(b.neg, b, a) ELSE MagSub(a.neg, a, b)

\* a + b of two floats
FAdd(a, b) ==
  CASE a.kind = "nan" \/ b.kind = "nan" -> NaN
    [] a.kind = "inf" /\ b.kind = "inf" -> IF a.neg = b.neg THEN a ELSE NaN
    [] a.kind = "inf" /\ b.kind = "finite" -> a
    [] a.kind = "finite" /\ b.kind = "inf" -> b
    [] OTHER -> FiniteAdd(a, b)

\* x * 0.5, of a finite float
FHalf(a) == MkFloat(a.neg, a.int \div 2, <<a.int % 2>> \o a.frac)

\* The value of a digit string.
RECURSIVE DigitsVal(_)
DigitsVal(s) ==
  IF s = <<>> THEN 0 ELSE DigitsVal(SubSeq(s, 1, Len(s) - 1)) * 10 + DigitVal(s[Len(s)])

\* The decimal digits of the largest float, 1.7976931348623157e308.
MaxDigits == 309

\* float(x) of a token matched by -?\d+\.?\d*: a numeral of more than 309
\* digits before the point, the leading zeros apart, converts to inf.
Float(tok) ==
  LET neg == tok[1] = "-"
      body == IF neg THEN Tail(tok) ELSE tok
      e == DigitEnd(body, 1)
      lead == Min({k \in 1..e : k = e \/ body[k] # "0"})
      D == IF e >= Len(body) THEN <<>>
           ELSE [i \in 1..(Len(body) - e) |-> DigitVal(body[e + i])]
  IN  IF e - lead > MaxDigits THEN Inf(neg)
      ELSE LET int == DigitsVal(SubSeq(body, lead, e - 1))
           IN  Nearest(neg, int,
                       FracBits(Groups(D), MantissaBits + 1 - BitLen(int), int > 0))

\* [float(x) for x in re.findall(r'-?\d+\.?\d*', args)], scanning from index i.
RECURSIVE FindNumbers(_, _)
FindNumbers(s, i) ==
  LET at == {k \in i..Len(s) :
               \/ IsDigit(s[k])
               \/ s[k] = "-" /\ k + 1 <= Len(s) /\ IsDigit(s[k + 1])}
  IN  IF at = {} THEN <<>>
      ELSE LET k == Min(at)
               d == IF s[k] = "-" THEN k + 1 ELSE k
               e1 == DigitEnd(s, d)
               e2 == IF e1 <= Len(s) /\ s[e1] = "." THEN e1 + 1 ELSE e1
               e3 == DigitEnd(s, e2)
           IN  <<Float(SubSeq(s, k, e3 - 1))>> \o FindNumbers(s, e3)

\* The parser's locals: the cursor, the points so far, and whether an
\* IndexError has been raised.
ParseStart == [x |-> FromInt(0), y |-> FromInt(0), coords |-> <<>>, raised |-> FALSE]

IndexError(st) == [st EXCEPT !.raised = TRUE]

\* current_x, current_y = numbers[i], numbers[i+1]; coords.append(...)
AbsTo(st, numbers, i) ==
  IF i + 1 > Len(numbers) THEN IndexError(st)
  ELSE [st EXCEPT !.x = numbers[i], !.y = numbers[i + 1],
                  !.coords = Append(@, <<numbers[i], numbers[i + 1]>>)]

\* RelTo with the cursor left where it was.
RelToCursorKept(st, numbers, i) ==
  IF i + 1 > Len(numbers) THEN IndexError(st)
  ELSE [st EXCEPT !.coords = Append(@, <<FAdd(st.x, numbers[i]),
                                         FAdd(st.y, numbers[i + 1])>>)]

\* current_x += numbers[i]; current_y += numbers[i+1]; coords.append(...)
RelTo(st, numbers, i) ==
  IF i + 1 > Len(numbers) THEN IndexError(st)
  ELSE [st EXCEPT !.x = FAdd(@, numbers[i]), !.y = FAdd(@, numbers[i + 1]),
                  !.coords = Append(@, <<FAdd(st.x, numbers[i]),
                                         FAdd(st.y, numbers[i + 1])>>)]

\* for i in range(i, len(numbers), 2): absolute pairs
RECURSIVE AbsLoop(_, _, _)
AbsLoop(st, numbers, i) ==
  IF st.raised \/ i > Len(numbers) THEN st
  ELSE AbsLoop(AbsTo(st, numbers, i), numbers, i + 2)

\* for i in range(i, len(numbers), 2): relative pairs
RECURSIVE RelLoop(_, _, _)
RelLoop(st, numbers, i) ==
  IF st.raised \/ i > Len(numbers) THEN st
  ELSE RelLoop(RelTo(st, numbers, i), numbers, i + 2)

\* The body of "for cmd, args in commands".
ParseCommand(st, c) ==
  IF c.args = <<>> THEN st
  ELSE LET numbers == FindNumbers(c.args, 1)
       IN  CASE c.cmd = "M" -> AbsLoop(AbsTo(st, numbers, 1), numbers, 3)
             [] c.cmd = "m" -> RelLoop(RelTo(st, numbers, 1), numbers, 3)
             [] c.cmd = "L" -> AbsLoop(st, numbers, 1)
             [] c.cmd = "l" -> RelLoop(st, numbers, 1)
             [] OTHER -> st

RECURSIVE ParseLoop(_, _)
ParseLoop(st, commands) ==
  IF st.raised \/ commands = <<>> THEN st
  ELSE ParseLoop(ParseCommand(st, Head(commands)), Tail(commands))

Commands(data) == FindCommands(SubSpaces(Strip(data)), 1)

\* The outcome of a call: the list returned, or the exception raised.
parse_svg_path_to_coords(data) ==
  LET st == ParseLoop(ParseStart, Commands(data))
  IN  IF st.raised THEN [raised |-> TRUE, coords |-> <<>>]
      ELSE [raised |-> FALSE, coords |-> st.coords]

\* ------------------------------------------------------------------
\* The parser's inputs and its specification.
\* ------------------------------------------------------------------

\* "M 0 0 L 10 0 L 10 10 L 0 10 Z"
PathSquare ==
  <<"M", " ", "0", " ", "0", " ", "L", " ", "1", "0", " ", "0", " ",
    "L", " ", "1", "0", " ", "1", "0", " ", "L", " ", "0", " ", "1", "0",
    " ", "Z">>

\* "m 5 5 l 5 0 l 0 5"
PathRelative ==
  <<"m", " ", "5", " ", "5", " ", "l", " ", "5", " ", "0", " ",
    "l", " ", "0", " ", "5">>

\* The command letters of the generated paths; "C" is a letter the parser
\* does not know.
Letters == {"M", "m", "L", "l", "Z", "z", "C"}

\* The argument runs of the generated paths: none; one pair between white
\* space of several kinds; two pairs with a sign, a comma and decimal
\* fractions that are not binary ones; an odd run; a run with no number; a
\* pair split by a sign only.
ArgRuns ==
  { <<>>,
    <<"\f", "1", "\t", "\r", "2">>,
    <<"0", ".", "1", ",", "-", "1", " ", "0", ".", "2", " ", "2", ".", "5">>,
    <<" ", "5">>,
    <<" ", ",">>,
    <<"1", "0", "-", "4", "\n">> }

Segments == {<<l>> \o a : l \in Letters, a \in ArgRuns}

\* The concatenation of a sequence of strings.
RECURSIVE Concat(_)
Concat(ss) == IF ss = <<>> THEN <<>> ELSE Head(ss) \o Concat(Tail(ss))

ParseInit ==
  /\ pc = "parse"
  /\ \/ path_data \in {PathSquare, PathRelative}
     \/ \E n \in 0..MaxCmds : \E segs \in [1..n -> Segments] :
          path_data = Concat(segs)
  /\ parse_ret = None
  /\ simp_in = None /\ simp_ret = None
  /\ elements = <<>> /\ ex_idx = 0 /\ ex_provinces = <<>>
  /\ id_provinces = <<>> /\ id_idx = 0
  /\ provinces = <<>> /\ fail_pair = None /\ polygons = <<>>
  /\ province_ids = <<>> /\ pair_k = 0 /\ neighbors = <<>> /\ template = <<>>
  /\ coastal_names = <<>>

\* One call of parse_svg_path_to_coords(path_data).
Parse ==
  /\ pc = "parse"
  /\ parse_ret' = parse_svg_path_to_coords(path_data)
  /\ pc' = "parsed"
  /\ UNCHANGED <<path_data, simpVars, exVars, idVars, nbVars>>

ParseNext == Parse

SpecParse == ParseInit /\ [][ParseNext]_vars

\* The coordinate pairs of the M, m, L and l commands of a path, in command
\* order, each with the command's mode.
RECURSIVE PairsOfNumbers(_, _)
PairsOfNumbers(rel, numbers) ==
  IF Len(numbers) < 2 THEN <<>>
  ELSE <<[rel |-> rel, dx |-> numbers[1], dy |-> numbers[2]] >>
         \o PairsOfNumbers(rel, SubSeq(numbers, 3, Len(numbers)))

RECURSIVE CoordPairs(_)
CoordPairs(commands) ==
  IF commands = <<>> THEN <<>>
  ELSE LET c == Head(commands)
       IN  (IF c.cmd \in {"M", "m", "L", "l"}
            THEN PairsOfNumbers(c.cmd \in {"m", "l"}, FindNumbers(c.args, 1))
            ELSE <<>>) \o CoordPairs(Tail(commands))

\* The points of integer coordinates, as floats.
Floats(pts) == [i \in DOMAIN pts |-> <<FromInt(pts[i][1]), FromInt(pts[i][2])>>]

\* Every M, m, L and l command that carries arguments carries whole
\* coordinate pairs, and an M or m at least one.
PairsOnly(commands) ==
  \A i \in DOMAIN commands :
    LET c == commands[i]
        n == Len(FindNumbers(c.args, 1))
    IN  c.cmd \in {"M", "m", "L", "l"} /\ c.args # <<>> =>
          /\ n % 2 = 0
          /\ c.cmd \in {"M", "m"} => n >= 2

\* C3: for a path whose move and line commands carry whole coordinate
\* pairs, the parser returns one point per pair, in command order: the pair
\* itself for M and L, the previous point (the origin at first) plus the pair
\* for m and l; Z and z add nothing.  The square path yields
\* [(0,0),(10,0),(10,10),(0,10)], the relative path [(5,5),(10,5),(10,10)].
C3_OnePointPerPair ==
  pc = "parsed" =>
    /\ PairsOnly(Commands(path_data)) =>
         LET prs == CoordPairs(Commands(path_data))
             pts == parse_ret.coords
         IN  /\ ~parse_ret.raised
             /\ Len(pts) = Len(prs)
             /\ \A k \in DOMAIN prs :
                  LET px == IF k = 1 THEN FromInt(0) ELSE pts[k - 1][1]
                      py == IF k = 1 THEN FromInt(0) ELSE pts[k - 1][2]
                  IN  pts[k] = IF prs[k].rel
                               THEN <<FAdd(px, prs[k].dx), FAdd(py, prs[k].dy)>>
                               ELSE <<prs[k].dx, prs[k].dy>>
    /\ path_data = PathSquare =>
         parse_ret = [raised |-> FALSE,
                      coords |-> Floats(<<<<0, 0>>, <<10, 0>>,
                                   <<10, 10>>, <<0, 10>>>>)]
    /\ path_data = PathRelative =>
         parse_ret = [raised |-> FALSE,
                      coords |-> Floats(<<<<5, 5>>, <<10, 5>>, <<10, 10>>>>)]

\* Three points have been parsed, of absolute and of relative pairs, one of
\* them at 0.1 + 0.2, which as a float is not 0.3.
C3_Witness ==
  /\ pc = "parsed"
  /\ ~parse_ret.raised
  /\ Len(parse_ret.coords) = 3
  /\ \E k \in DOMAIN parse_ret.coords :
       /\ parse_ret.coords[k][1] = FAdd(Float(<<"0", ".", "1">>), Float(<<"0", ".", "2">>))
       /\ parse_ret.coords[k][1] # Float(<<"0", ".", "3">>)
  /\ \E i \in DOMAIN CoordPairs(Commands(path_data)) :
       i > 1 /\ CoordPairs(Commands(path_data))[i].rel
  /\ \E i \in DOMAIN CoordPairs(Commands(path_data)) :
       ~CoordPairs(Commands(path_data))[i].rel

\* C4: the parser never raises: every call returns a point sequence.
C4_NeverRaises == pc = "parsed" => ~parse_ret.raised

\* ------------------------------------------------------------------
\* simplify_coords
\* ------------------------------------------------------------------

\* round(x) raises: OverflowError for inf, ValueError for nan.
RoundRaises(v) == ~IsFinite(v)

\* round(x) of a finite float: the nearest integer, a tie to the even one.
Round(v) ==
  LET mag == IF v.frac = <<>> \/ v.frac[1] = 0 THEN v.int
             ELSE IF Len(v.frac) > 1 THEN v.int + 1
             ELSE IF v.int % 2 = 0 THEN v.int ELSE v.int + 1
  IN  IF v.neg THEN -mag ELSE mag

\* [[round(x), round(y)] for x, y in coords]
RoundAll(coords) == [i \in DOMAIN coords |-> <<Round(coords[i][1]), Round(coords[i][2])>>]

\* The list comprehension raises.
CannotRound(coords) ==
  \E i \in DOMAIN coords : RoundRaises(coords[i][1]) \/ RoundRaises(coords[i][2])

\* The vertices of Polygon(coords): the closing point, when the input
\* repeats its first point at the end, is not a vertex of its own.
OpenRing(coords) ==
  IF Len(coords) > 1 /\ coords[1] = coords[Len(coords)]
  THEN SubSeq(coords, 1, Len(coords) - 1)
  ELSE coords

\* The i-th element of a finite set of integers, in ascending order.
RECURSIVE Ascending(_)
Ascending(S) == IF S = {} THEN <<>> ELSE <<Min(S)>> \o Ascending(S \ {Min(S)})

\* simplified.exterior.coords for an answer of the geometry library: the
\* vertices it kept, in ring order, and the first of them again at the end.
ExteriorCoords(coords, kept) ==
  LET ring == OpenRing(coords)
      idx == Ascending(kept)
      pts == [i \in DOMAIN idx |-> ring[idx[i]]]
  IN  IF pts = <<>> THEN <<>> ELSE Append(pts, pts[1])

\* What poly.simplify(tolerance, preserve_topology=True) can answer for a
\* ring: an exception, or a ring of at least three of its vertices.
LibAnswers(coords) ==
  {[raises |-> TRUE, kept |-> {}]}
    \cup {[raises |-> FALSE, kept |-> K] :
            K \in {K \in SUBSET (1..Len(OpenRing(coords))) : Cardinality(K) >= 3}}

\* The coordinate count below which the simplification is run again.
MinCoordCount == 6

\* The test of the exterior ring counting its vertices, the closing point
\* left out.
NeedsRetryVertices(exterior) == Len(exterior) - 1 < MinCoordCount

\* len(simplified.exterior.coords) < 6
NeedsRetry(exterior) == Len(exterior) < MinCoordCount

\* tolerance * 0.5
HalfTolerance(tolerance) == FHalf(tolerance)

\* "return [[round(x), round(y)] for x, y in coords]" outside the try
\* block (the short ring, and the except branch): the exception of round()
\* leaves simplify_coords.
Rounded(coords, calls) ==
  IF CannotRound(coords) THEN [raised |-> TRUE, out |-> <<>>, calls |-> calls]
  ELSE [raised |-> FALSE, out |-> RoundAll(coords), calls |-> calls]

\* The return inside the try block: the exception of round() is caught,
\* and the original coordinates are rounded instead.
RoundedExterior(exterior, coords, calls) ==
  LET pts == SubSeq(exterior, 1, Len(exterior) - 1)
  IN  IF CannotRound(pts) THEN Rounded(coords, calls)
      ELSE [raised |-> FALSE, out |-> RoundAll(pts), calls |-> calls]

\* simplify_coords(coords, tolerance), the library answering `first` to the
\* first simplify call and `second` to the second.  calls lists the
\* tolerances of the simplify calls made; raised tells that the call ended
\* in an exception.
simplify_coords(coords, tolerance, first, second) ==
  IF Len(coords) < 4 THEN Rounded(coords, <<>>)
  ELSE IF first.raises THEN Rounded(coords, <<tolerance>>)
       ELSE LET ext1 == ExteriorCoords(coords, first.kept)
                both == <<tolerance, HalfTolerance(tolerance)>>
            IN  IF NeedsRetry(ext1)
                THEN IF second.raises THEN Rounded(coords, both)
                     ELSE RoundedExterior(ExteriorCoords(coords, second.kept),
                                          coords, both)
                ELSE RoundedExterior(ext1, coords, <<tolerance>>)

\* The rings of the simplifier's inputs: n points of a convex arc,
\* (1.5 i, 0.5 i^2 + 0.1), the first point repeated at the end when closed.
ArcPoint(i) ==
  <<FHalf(FromInt(3 * i)), FAdd(FHalf(FromInt(i * i)), Float(<<"0", ".", "1">>))>>

ArcPoints == [i \in 1..(MaxRing + 1) |-> ArcPoint(i)]

ArcRing(n, closed) ==
  LET open == SubSeq(ArcPoints, 1, n)
  IN  IF closed THEN Append(open, open[1]) ELSE open

\* The tolerances of the simplifier's inputs: 0, 0.3, 5.0.
Tolerances == {FromInt(0), Float(<<"0", ".", "3">>), FromInt(5)}

SimplifyInit ==
  /\ pc = "simplify"
  /\ \E n \in 3..MaxRing, closed \in BOOLEAN, t \in Tolerances :
       \E f \in LibAnswers(ArcRing(n, closed)), g \in LibAnswers(ArcRing(n, closed)) :
         simp_in = [coords |-> ArcRing(n, closed), tolerance |-> t,
                    first |-> f, second |-> g]
  /\ simp_ret = None
  /\ path_data = None /\ parse_ret = None
  /\ elements = <<>> /\ ex_idx = 0 /\ ex_provinces = <<>>
  /\ id_provinces = <<>> /\ id_idx = 0
  /\ provinces = <<>> /\ fail_pair = None /\ polygons = <<>>
  /\ province_ids = <<>> /\ pair_k = 0 /\ neighbors = <<>> /\ template = <<>>
  /\ coastal_names = <<>>

\* One call of simplify_coords(coords, tolerance).
Simplify ==
  /\ pc = "simplify"
  /\ simp_ret' = simplify_coords(simp_in.coords, simp_in.tolerance,
                                 simp_in.first, simp_in.second)
  /\ pc' = "simplified"
  /\ UNCHANGED <<simp_in, parseVars, exVars, idVars, nbVars>>

SimplifyNext == Simplify

SpecSimplify == SimplifyInit /\ [][SimplifyNext]_vars

\* The vertices of the ring the first simplification left.
FirstVertices == Cardinality(simp_in.first.kept)

\* C5 (as claimed): the simplification is run again exactly when the first
\* one leaves fewer than 6 vertices, the start point not counted twice.
C5_RetryBelowSixVertices ==
  pc = "simplified" /\ Len(simp_ret.calls) >= 1 /\ ~simp_in.first.raises =>
    (Len(simp_ret.calls) = 2 <=> FirstVertices < 6)

\* C5 (amended): the simplification is run again, at half the tolerance,
\* exactly when the first one leaves fewer than 6 coordinates in the closed
\* exterior ring, that is fewer than 5 vertices; it is run at most twice,
\* and the second result is returned, rounded, whatever its vertex count.
C5_RetryBelowSixCoords ==
  pc = "simplified" =>
    /\ Len(simp_ret.calls) <= 2
    /\ Len(simp_ret.calls) >= 1 /\ ~simp_in.first.raises =>
         (Len(simp_ret.calls) = 2 <=> FirstVertices < 5)
    /\ Len(simp_ret.calls) = 2 =>
         /\ simp_ret.calls[1] = simp_in.tolerance
         /\ FAdd(simp_ret.calls[2], simp_ret.calls[2]) = simp_in.tolerance
         /\ ~simp_in.second.raises =>
              /\ Len(simp_ret.out) = Cardinality(simp_in.second.kept)
              /\ \A i \in DOMAIN simp_ret.out :
                   LET v == OpenRing(simp_in.coords)[Ascending(simp_in.second.kept)[i]]
                   IN  simp_ret.out[i] = <<Round(v[1]), Round(v[2])>>

\* A first simplification of 4 vertices was run again, and the second
\* result, of 3 vertices, returned.
C5_Witness ==
  /\ pc = "simplified"
  /\ ~simp_in.first.raises /\ FirstVertices = 4
  /\ ~simp_in.second.raises /\ Cardinality(simp_in.second.kept) = 3
  /\ Len(simp_ret.calls) = 2
  /\ Len(simp_ret.out) = 3
  /\ simp_in.tolerance # FromInt(0)

\* ------------------------------------------------------------------
\* calculate_centroid
\* ------------------------------------------------------------------

\* round(n / d) for a ratio of integers: to the nearest integer, a tie to
\* the even one.
RoundRatio(n, d) ==
  LET nn == IF d < 0 THEN -n ELSE n
      dd == IF d < 0 THEN -d ELSE d
      q == nn \div dd
      r == nn % dd
  IN  IF 2 * r < dd THEN q
      ELSE IF 2 * r > dd THEN q + 1
      ELSE IF q % 2 = 0 THEN q ELSE q + 1

RECURSIVE Sum(_, _)
Sum(f, S) == IF S = {} THEN 0 ELSE LET x == CHOOSE x \in S : TRUE
                                   IN  f[x] + Sum(f, S \ {x})

\* The vertex after the i-th one, around the ring.
Succ(ring, i) == ring[(i % Len(ring)) + 1]

\* Twice the signed area between the i-th side and the origin.
Cross(ring, i) == ring[i][1] * Succ(ring, i)[2] - Succ(ring, i)[1] * ring[i][2]

\* The weight of the i-th side of a ring of collinear points: its length,
\* in units of the line's direction.
SideWeight(ring, i) ==
  IF \E j \in DOMAIN ring : ring[j][1] # ring[1][1]
  THEN (IF Succ(ring, i)[1] >= ring[i][1] THEN Succ(ring, i)[1] - ring[i][1]
        ELSE ring[i][1] - Succ(ring, i)[1])
  ELSE (IF Succ(ring, i)[2] >= ring[i][2] THEN Succ(ring, i)[2] - ring[i][2]
        ELSE ring[i][2] - Succ(ring, i)[2])

\* The fallback: the rounded mean of the vertices.
MeanPoint(coords) ==
  <<RoundRatio(Sum([i \in DOMAIN coords |-> coords[i][1]], DOMAIN coords), Len(coords)),
    RoundRatio(Sum([i \in DOMAIN coords |-> coords[i][2]], DOMAIN coords), Len(coords))>>

\* calculate_centroid(coords) raises: of an empty ring neither the polygon
\* nor the list has a centre, and the fallback divides by len(coords) = 0.
CentroidRaises(coords) == coords = <<>>

\* calculate_centroid(coords) for a non-empty ring of integer points: the
\* rounded centroid of Polygon(coords), which is the centroid of the area
\* when there is one and the centroid of the sides when the points are
\* collinear; the mean of the vertices when the library raises (fewer than
\* three points, or no side of any length).
calculate_centroid(coords) ==
  LET I == DOMAIN coords
      area2 == Sum([i \in I |-> Cross(coords, i)], I)
      weight == Sum([i \in I |-> SideWeight(coords, i)], I)
  IN  CASE Len(coords) < 3 -> MeanPoint(coords)
        [] Len(coords) >= 3 /\ area2 # 0 ->
             <<RoundRatio(Sum([i \in I |-> (coords[i][1] + Succ(coords, i)[1])
                                             * Cross(coords, i)], I), 3 * area2),
               RoundRatio(Sum([i \in I |-> (coords[i][2] + Succ(coords, i)[2])
                                             * Cross(coords, i)], I), 3 * area2)>>
        [] Len(coords) >= 3 /\ area2 = 0 /\ weight = 0 -> MeanPoint(coords)
        [] Len(coords) >= 3 /\ area2 = 0 /\ weight # 0
             /\ \A i, j, k \in I :
                  (coords[j][1] - coords[i][1]) * (coords[k][2] - coords[i][2])
                    = (coords[k][1] - coords[i][1]) * (coords[j][2] - coords[i][2]) ->
             <<RoundRatio(Sum([i \in I |-> (coords[i][1] + Succ(coords, i)[1])
                                             * SideWeight(coords, i)], I), 2 * weight),
               RoundRatio(Sum([i \in I |-> (coords[i][2] + Succ(coords, i)[2])
                                             * SideWeight(coords, i)], I), 2 * weight)>>

\* ------------------------------------------------------------------
\* assign_province_ids
\* ------------------------------------------------------------------

\* The characters of the code points 65 to 95, in code point order.
CodeTable ==
  <<
    "A", "B", "C", "D", "E", "F", "G", "H", "I", "J", "K", "L", "M",
    "N", "O", "P", "Q", "R", "S", "T", "U", "V", "W", "X", "Y", "Z",
    "[", "\\", "]", "^", "_" >>

\* chr(n), for the code points of the table.
Chr(n) == CodeTable[n - 64]

\* ord(c)
Ord(c) == 64 + (CHOOSE i \in DOMAIN CodeTable : CodeTable[i] = c)

\* str.isalpha() of a one-character string of the table.
IsAlpha(c) == (Ord(c) >= 65 /\ Ord(c) <= 90) \/ (Ord(c) >= 97 /\ Ord(c) <= 122)

\* province['id'] = value
WithId(p, value) ==
  [f \in DOMAIN p \cup {"id"} |-> IF f = "id" THEN value ELSE p[f]]

\* chr(65 + idx)
IdAt(idx) == Chr(65 + idx)

\* assign_province_ids(provinces), the whole loop.
assign_province_ids(provs) == [i \in DOMAIN provs |-> WithId(provs[i], IdAt(i - 1))]

\* str(n) of a natural number
RECURSIVE Str(_)
Str(n) == IF n < 10 THEN <<DigitChars[n + 1]>>
          ELSE Append(Str(n \div 10), DigitChars[(n % 10) + 1])

\* f'Province_{idx+1}'
DefaultTitle(idx) == <<"P", "r", "o", "v", "i", "n", "c", "e", "_">> \o Str(idx + 1)

\* f'p{idx}'
DefaultId(idx) == <<"p">> \o Str(idx)

\* The province record as extraction leaves it.
Province(title, original_id, coords) ==
  [original_title |-> title, original_id |-> original_id,
   coordinates |-> coords, centroid |-> calculate_centroid(coords),
   isCoastal |-> FALSE]

IdsInit ==
  /\ pc = "ids"
  /\ \E n \in 1..MaxIdProvinces :
       id_provinces = [i \in 1..n |-> Province(DefaultTitle(i - 1), DefaultId(i - 1),
                                  <<<<0, 0>>, <<10, 0>>, <<10, 10>>, <<0, 10>>>>)]
  /\ id_idx = 0
  /\ path_data = None /\ parse_ret = None
  /\ simp_in = None /\ simp_ret = None
  /\ elements = <<>> /\ ex_idx = 0 /\ ex_provinces = <<>>
  /\ provinces = <<>> /\ fail_pair = None /\ polygons = <<>>
  /\ province_ids = <<>> /\ pair_k = 0 /\ neighbors = <<>> /\ template = <<>>
  /\ coastal_names = <<>>

\* One iteration of "for idx, province in enumerate(provinces)".
AssignId ==
  /\ pc = "ids"
  /\ id_idx < Len(id_provinces)
  /\ id_provinces' = [id_provinces EXCEPT ![id_idx + 1] = WithId(@, IdAt(id_idx))]
  /\ id_idx' = id_idx + 1
  /\ UNCHANGED <<pc, parseVars, simpVars, exVars, nbVars>>

\* return provinces
AssignReturn ==
  /\ pc = "ids"
  /\ id_idx = Len(id_provinces)
  /\ pc' = "ids_done"
  /\ UNCHANGED <<parseVars, simpVars, exVars, idVars, nbVars>>

IdsNext == AssignId \/ AssignReturn

SpecIds == IdsInit /\ [][IdsNext]_vars

\* C8: the province at position i gets the i-th identifier of the sequence
\* A, B, C, ...; every identifier is alphabetic and no two are equal.
C8_AlphabeticDistinct ==
  pc = "ids_done" =>
    /\ \A i \in DOMAIN id_provinces :
         /\ id_provinces[i].id = Chr(64 + i)
         /\ IsAlpha(id_provinces[i].id)
    /\ \A i, j \in DOMAIN id_provinces :
         i # j => id_provinces[i].id # id_provinces[j].id

\* ------------------------------------------------------------------
\* detect_neighbors and create_template_json
\* ------------------------------------------------------------------

\* The geometry library on the rings of the model: a ring of one or two
\* points cannot make a polygon; the four corners of an axis-parallel
\* rectangle in ring order make a valid polygon; a ring of collinear points
\* makes an invalid, zero-area polygon, which buffer(0) turns into the
\* empty polygon.
EmptyGeom == [kind |-> "empty", x1 |-> 0, x2 |-> 0, y1 |-> 0, y2 |-> 0]

Xs(ring) == {ring[i][1] : i \in DOMAIN ring}

Ys(ring) == {ring[i][2] : i \in DOMAIN ring}

IsRectRing(ring) ==
  /\ Len(ring) = 4
  /\ Cardinality(Xs(ring)) = 2 /\ Cardinality(Ys(ring)) = 2
  /\ Cardinality(Range(ring)) = 4
  /\ \A i \in 1..4 :
       LET p == ring[i]
           q == ring[(i % 4) + 1]
       IN  (p[1] = q[1]) # (p[2] = q[2])

IsCollinear(ring) ==
  \A i, j, k \in DOMAIN ring :
    (ring[j][1] - ring[i][1]) * (ring[k][2] - ring[i][2])
      = (ring[k][1] - ring[i][1]) * (ring[j][2] - ring[i][2])

\* Polygon(province['coordinates'])
Polygon(ring) ==
  CASE Len(ring) \in {1, 2} -> [raises |-> TRUE, is_valid |-> FALSE, geom |-> EmptyGeom]
    [] IsRectRing(ring) ->
         [raises |-> FALSE, is_valid |-> TRUE,
          geom |-> [kind |-> "rect", x1 |-> Min(Xs(ring)), x2 |-> Max(Xs(ring)),
                    y1 |-> Min(Ys(ring)), y2 |-> Max(Ys(ring))]]
    [] Len(ring) >= 3 /\ IsCollinear(ring) ->
         [raises |-> FALSE, is_valid |-> FALSE, geom |-> EmptyGeom]

\* poly.buffer(0) of an invalid polygon of the model
Buffer0(poly) == EmptyGeom

\* The extent of the common part of two rectangles along x and along y
\* (negative when they are apart).
CommonW(g, h) == Min({g.x2, h.x2}) - Max({g.x1, h.x1})

CommonH(g, h) == Min({g.y2, h.y2}) - Max({g.y1, h.y1})

\* poly1.intersects(poly2)
Intersects(g, h) ==
  /\ g.kind = "rect" /\ h.kind = "rect"
  /\ CommonW(g, h) >= 0 /\ CommonH(g, h) >= 0

\* poly1.touches(poly2)
Touches(g, h) ==
  /\ Intersects(g, h)
  /\ CommonW(g, h) = 0 \/ CommonH(g, h) = 0

\* poly1.intersection(poly2).length: the perimeter of a common area, the
\* length of a common segment, 0 for a point or nothing.
IntersectionLength(g, h) ==
  IF ~Intersects(g, h) THEN 0
  ELSE IF CommonW(g, h) > 0 /\ CommonH(g, h) > 0
       THEN 2 * (CommonW(g, h) + CommonH(g, h))
       ELSE CommonW(g, h) + CommonH(g, h)

\* The length an intersection must exceed.
MinLength == 1

\* The polygon loop stopping at the first province without a polygon.
RECURSIVE BuildPolygonsAbort(_)
BuildPolygonsAbort(provs) ==
  IF provs = <<>> THEN <<>>
  ELSE LET p == Head(provs)
           poly == Polygon(p.coordinates)
       IN  IF poly.raises THEN <<>>
           ELSE <<[id |-> p.id,
                   geom |-> IF poly.is_valid THEN poly.geom ELSE Buffer0(poly)]>>
                  \o BuildPolygonsAbort(Tail(provs))

\* "for province in provinces: try: ... except: continue": the polygons in
\* insertion order.
RECURSIVE BuildPolygons(_)
BuildPolygons(provs) ==
  IF provs = <<>> THEN <<>>
  ELSE LET p == Head(provs)
           poly == Polygon(p.coordinates)
       IN  (IF poly.raises THEN <<>>
            ELSE <<[id |-> p.id,
                    geom |-> IF poly.is_valid THEN poly.geom ELSE Buffer0(poly)]>>)
             \o BuildPolygons(Tail(provs))

\* The pairs with a province paired with itself as well.
RECURSIVE PairListWithSelf(_)
PairListWithSelf(ids) ==
  IF ids = <<>> THEN <<>>
  ELSE [j \in 1..Len(ids) |-> <<ids[1], ids[j]>>] \o PairListWithSelf(Tail(ids))

\* The pairs taken in both orders.
PairListBothOrders(ids) ==
  LET n == Len(ids)
      all == [k \in 1..(n * n) |-> <<ids[((k - 1) \div n) + 1], ids[((k - 1) % n) + 1]>>]
  IN  SelectSeq(all, LAMBDA pr : pr[1] # pr[2])

\* "for i, id1 in enumerate(province_ids): for id2 in province_ids[i+1:]":
\* the pairs in the order the loop takes them.
RECURSIVE PairList(_)
PairList(ids) ==
  IF ids = <<>> THEN <<>>
  ELSE [j \in 1..(Len(ids) - 1) |-> <<ids[1], ids[j + 1]>>] \o PairList(Tail(ids))

\* The body of the pair loop registering id2 with id1 only.
PairBodyOneSided(nb, polys, id1, id2, fail) ==
  IF {id1, id2} = fail THEN nb
  ELSE IF /\ Touches(polys[id1], polys[id2]) \/ Intersects(polys[id1], polys[id2])
          /\ IntersectionLength(polys[id1], polys[id2]) > MinLength
       THEN [nb EXCEPT ![id1] = Append(@, id2)]
       ELSE nb

\* The body of the pair loop: the test of one pair; on the pair `fail` the
\* geometry library raises, and the pair is passed over.
PairBody(nb, polys, id1, id2, fail) ==
  IF {id1, id2} = fail THEN nb
  ELSE IF /\ Touches(polys[id1], polys[id2]) \/ Intersects(polys[id1], polys[id2])
          /\ IntersectionLength(polys[id1], polys[id2]) > MinLength
       THEN [nb EXCEPT ![id1] = Append(@, id2), ![id2] = Append(@, id1)]
       ELSE nb

\* polygons as a mapping from identifier to polygon
GeomOf(built) ==
  [id \in {built[i].id : i \in DOMAIN built} |->
     built[CHOOSE i \in DOMAIN built : built[i].id = id].geom]

\* neighbors = {p['id']: [] for p in provinces}
NoNeighbors(provs) == [id \in {provs[i].id : i \in DOMAIN provs} |-> <<>>]

RECURSIVE RunPairs(_, _, _, _)
RunPairs(nb, polys, pairs, fail) ==
  IF pairs = <<>> THEN nb
  ELSE RunPairs(PairBody(nb, polys, Head(pairs)[1], Head(pairs)[2], fail),
                polys, Tail(pairs), fail)

\* detect_neighbors(provinces), the whole function.
detect_neighbors(provs, fail) ==
  LET built == BuildPolygons(provs)
      ids == [i \in DOMAIN built |-> built[i].id]
  IN  RunPairs(NoNeighbors(provs), GeomOf(built), PairList(ids), fail)

\* sorted(list of identifiers)
Sorted(ids) == SortSeq(ids, LAMBDA a, b : Ord(a) < Ord(b))

\* neighbors.get(id, [])
Get(nb, id) == IF id \in DOMAIN nb THEN nb[id] ELSE <<>>

\* ---- mark_coastal_provinces ----

\* The lower case letters, in the order of the upper case ones of CodeTable.
LowerTable ==
  << "a", "b", "c", "d", "e", "f", "g", "h", "i", "j", "k", "l", "m",
     "n", "o", "p", "q", "r", "s", "t", "u", "v", "w", "x", "y", "z" >>

\* str.lower()
Lower(s) ==
  [i \in DOMAIN s |->
     IF \E k \in DOMAIN LowerTable : CodeTable[k] = s[i]
     THEN LowerTable[CHOOSE k \in DOMAIN LowerTable : CodeTable[k] = s[i]]
     ELSE s[i]]

\* a in b, of two strings
Contains(b, a) ==
  \E i \in 1..(Len(b) - Len(a) + 1) : SubSeq(b, i, i + Len(a) - 1) = a

\* mark_coastal_provinces(provinces, coastal_names)
mark_coastal_provinces(provs, names) ==
  LET coastal_names_lower == [k \in DOMAIN names |-> Strip(Lower(names[k]))]
  IN  [i \in DOMAIN provs |->
         IF \E k \in DOMAIN coastal_names_lower :
              Contains(Lower(provs[i].original_title), coastal_names_lower[k])
         THEN [provs[i] EXCEPT !.isCoastal = TRUE]
         ELSE provs[i]]

\* The titles of the provinces given to create_template_json: "Anbar",
\* "Al-Basrah", and the default titles after them.
TitleAt(i) ==
  CASE i = 1 -> <<"A", "n", "b", "a", "r">>
    [] i = 2 -> <<"A", "l", "-", "B", "a", "s", "r", "a", "h">>
    [] OTHER -> DefaultTitle(i - 1)

\* The lists of coastal names: none; "BASRA" and "sea".
CoastalPool ==
  { <<>>,
    << <<"B", "A", "S", "R", "A">>, <<"s", "e", "a">> >> }

\* The rings of the provinces given to create_template_json.
Rect(x1, y1, x2, y2) == <<<<x1, y1>>, <<x2, y1>>, <<x2, y2>>, <<x1, y2>>>>

\* [(0,0),(10,0),(10,10),(0,10)]
RingA == Rect(0, 0, 10, 10)

\* [(10,0),(20,0),(20,10),(10,10)]: a full edge in common with RingA
RingB == Rect(10, 0, 20, 10)

\* a corner in common with RingA, a full edge with RingB
RingC == Rect(10, 10, 20, 20)

\* an area in common with RingA, RingB and RingC, no border in common
RingD == Rect(5, 5, 15, 15)

\* a border of length 1 in common with RingA
RingE == Rect(-10, 9, 0, 19)

\* inside RingA, no border in common
RingF == Rect(2, 2, 4, 4)

\* collinear points
RingG == <<<<0, 0>>, <<5, 0>>, <<10, 0>>>>

\* too few points for a polygon
RingH == <<<<0, 0>>, <<10, 10>>>>

RingPool == {RingA, RingB, RingC, RingD, RingE, RingF, RingG, RingH}

TemplateInit ==
  /\ pc = "coastal"
  /\ coastal_names \in CoastalPool
  /\ \E n \in 1..MaxProvinces : \E rings \in [1..n -> RingPool] :
       /\ provinces = assign_province_ids(
            [i \in 1..n |-> Province(TitleAt(i), DefaultId(i - 1), rings[i])])
       /\ fail_pair \in {{}} \cup {pr \in {{IdAt(i - 1), IdAt(j - 1)} : i, j \in 1..n} :
                                   Cardinality(pr) = 2}
  /\ polygons = <<>> /\ province_ids = <<>> /\ pair_k = 0
  /\ neighbors = <<>> /\ template = <<>>
  /\ path_data = None /\ parse_ret = None
  /\ simp_in = None /\ simp_ret = None
  /\ elements = <<>> /\ ex_idx = 0 /\ ex_provinces = <<>>
  /\ id_provinces = <<>> /\ id_idx = 0

\* main: "if coastal_names: provinces = mark_coastal_provinces(...)"
MarkCoastal ==
  /\ pc = "coastal"
  /\ provinces' = IF coastal_names # <<>>
                  THEN mark_coastal_provinces(provinces, coastal_names)
                  ELSE provinces
  /\ pc' = "template"
  /\ UNCHANGED <<fail_pair, polygons, province_ids, pair_k, neighbors,
                 coastal_names, template, parseVars, simpVars, exVars, idVars>>

\* detect_neighbors up to the pair loop: the empty lists and the polygons.
DetectStart ==
  /\ pc = "template"
  /\ LET built == BuildPolygons(provinces)
     IN  /\ polygons' = GeomOf(built)
         /\ province_ids' = [i \in DOMAIN built |-> built[i].id]
  /\ neighbors' = NoNeighbors(provinces)
  /\ pair_k' = 0
  /\ pc' = "pairs"
  /\ UNCHANGED <<provinces, fail_pair, coastal_names, template,
                 parseVars, simpVars, exVars, idVars>>

\* One iteration of the pair loop.
PairStep ==
  /\ pc = "pairs"
  /\ pair_k < Len(PairList(province_ids))
  /\ LET pr == PairList(province_ids)[pair_k + 1]
     IN  neighbors' = PairBody(neighbors, polygons, pr[1], pr[2], fail_pair)
  /\ pair_k' = pair_k + 1
  /\ UNCHANGED <<pc, provinces, fail_pair, polygons, province_ids,
                 coastal_names, template, parseVars, simpVars, exVars, idVars>>

\* province['neighbors'] = sorted(neighbors.get(province['id'], []))
WithNeighbors(p, nb) ==
  [f \in DOMAIN p \cup {"neighbors"} |->
     IF f = "neighbors" THEN Sorted(Get(nb, p.id)) ELSE p[f]]

\* template['provinces'], from the provinces with their neighbour lists
TemplateProvinces(provs) ==
  [i \in DOMAIN provs |->
     [id |-> provs[i].id,
      title |-> provs[i].original_title,
      coordinates |-> provs[i].coordinates,
      centroid |-> provs[i].centroid,
      isCoastal |-> provs[i].isCoastal,
      neighbors |-> provs[i].neighbors]]

\* detect_neighbors returns; create_template_json writes each province's
\* sorted list into the province and emits the provinces.
Emit ==
  /\ pc = "pairs"
  /\ pair_k = Len(PairList(province_ids))
  /\ provinces' = [i \in DOMAIN provinces |-> WithNeighbors(provinces[i], neighbors)]
  /\ template' = TemplateProvinces(provinces')
  /\ pc' = "emitted"
  /\ UNCHANGED <<fail_pair, polygons, province_ids, pair_k, neighbors,
                 coastal_names, parseVars, simpVars, exVars, idVars>>

TemplateNext == MarkCoastal \/ DetectStart \/ PairStep \/ Emit

SpecTemplate == TemplateInit /\ [][TemplateNext]_vars

\* ------------------------------------------------------------------
\* extract_provinces_from_svg
\* ------------------------------------------------------------------

\* path.get(name, default): an element is a record of its attributes.
Attr(e, name, default) == IF name \in DOMAIN e THEN e[name] ELSE default

\* not path_data: the attribute is missing or empty.
NoPathData(e) == "d" \notin DOMAIN e \/ e.d = <<>>

\* len(raw_coords) < 3
TooFew(raw_coords) == Len(raw_coords) < 3

\* The default of the tolerance parameter, 5.0.
DefaultTolerance == FromInt(5)

\* "M 1 2 L 3": an odd run of numbers
PathOdd == <<"M", " ", "1", " ", "2", " ", "L", " ", "3">>

\* "M 1 2 L 3 4 z": two points
PathShort == <<"M", " ", "1", " ", "2", " ", "L", " ", "3", " ", "4", " ", "z">>

\* "M 0 0 L 99...9 0 L 0 10", the second x of 310 digits: three points, one
\* of them at inf
PathHuge ==
  <<"M", " ", "0", " ", "0", " ", "L", " ">> \o [i \in 1..(MaxDigits + 1) |-> "9"]
    \o <<" ", "0", " ", "L", " ", "0", " ", "1", "0">>

ElementPool ==
  { [title |-> <<"A", "n", "b", "a", "r">>, id |-> <<"I", "Q", "-", "A", "N">>,
     d |-> PathSquare],
    [d |-> PathRelative],
    [title |-> <<"B", "a", "s", "r", "a">>],
    [id |-> <<"I", "Q", "-", "B", "A">>, d |-> <<>>],
    [title |-> <<"D", "i", "y", "a", "l", "a">>, d |-> PathOdd],
    [d |-> PathShort],
    [title |-> <<"N", "a", "j", "a", "f">>, d |-> PathHuge] }

ExtractInit ==
  /\ pc = "extract"
  /\ \E n \in 0..MaxPaths : elements \in [1..n -> ElementPool]
  /\ ex_idx = 0
  /\ ex_provinces = <<>>
  /\ path_data = None /\ parse_ret = None
  /\ simp_in = None /\ simp_ret = None
  /\ id_provinces = <<>> /\ id_idx = 0
  /\ provinces = <<>> /\ fail_pair = None /\ polygons = <<>>
  /\ province_ids = <<>> /\ pair_k = 0 /\ neighbors = <<>> /\ template = <<>>
  /\ coastal_names = <<>>

\* One iteration of "for idx, path in enumerate(paths)"; the geometry
\* library answers f and g to the simplify calls.  An exception of the
\* parser, of simplify_coords or of calculate_centroid is caught by the
\* "except Exception" of the loop body, and the element adds nothing.
ExtractPath ==
  /\ pc = "extract"
  /\ ex_idx < Len(elements)
  /\ LET e == elements[ex_idx + 1]
         title == Attr(e, "title", DefaultTitle(ex_idx))
         province_id == Attr(e, "id", DefaultId(ex_idx))
     IN  IF NoPathData(e) THEN ex_provinces' = ex_provinces
         ELSE LET raw == parse_svg_path_to_coords(e.d)
              IN  IF raw.raised \/ TooFew(raw.coords)
                  THEN ex_provinces' = ex_provinces
                  ELSE \E f \in LibAnswers(raw.coords), g \in LibAnswers(raw.coords) :
                         LET coords == simplify_coords(raw.coords, DefaultTolerance, f, g)
                         IN  IF coords.raised \/ CentroidRaises(coords.out)
                             THEN ex_provinces' = ex_provinces
                             ELSE ex_provinces' =
                                    Append(ex_provinces,
                                           Province(title, province_id, coords.out))
  /\ ex_idx' = ex_idx + 1
  /\ UNCHANGED <<pc, elements, parseVars, simpVars, idVars, nbVars>>

\* return metadata, provinces
ExtractReturn ==
  /\ pc = "extract"
  /\ ex_idx = Len(elements)
  /\ pc' = "extracted"
  /\ UNCHANGED <<exVars, parseVars, simpVars, idVars, nbVars>>

ExtractNext == ExtractPath \/ ExtractReturn

SpecExtract == ExtractInit /\ [][ExtractNext]_vars

\* The element at position i carries path data that parses to at least
\* three points.
Usable(i) ==
  /\ "d" \in DOMAIN elements[i]
  /\ elements[i].d # <<>>
  /\ ~parse_svg_path_to_coords(elements[i].d).raised
  /\ Len(parse_svg_path_to_coords(elements[i].d).coords) >= 3

\* C7: after any number of elements, the province list holds one province
\* for each element so far whose path data is present and parses to at
\* least 3 points, in input order, with that element's title and
\* identifier; every other element leaves the list as it was.
C7_ExactlyTheUsable ==
  pc \in {"extract", "extracted"} =>
    LET usable == Ascending({i \in 1..ex_idx : Usable(i)})
    IN  /\ Len(ex_provinces) = Len(usable)
        /\ \A k \in DOMAIN usable :
             /\ ex_provinces[k].original_title
                  = Attr(elements[usable[k]], "title", DefaultTitle(usable[k] - 1))
             /\ ex_provinces[k].original_id
                  = Attr(elements[usable[k]], "id", DefaultId(usable[k] - 1))
             /\ Len(ex_provinces[k].coordinates) >= 3

\* ------------------------------------------------------------------
\* The claims about the adjacency.
\* ------------------------------------------------------------------

InSeq(x, s) == \E i \in DOMAIN s : s[i] = x

\* C1: the neighbour map is symmetric after every step of the pair loop:
\* B is in the list of A exactly when A is in the list of B.
C1_Symmetric ==
  \A a, b \in DOMAIN neighbors : InSeq(b, neighbors[a]) <=> InSeq(a, neighbors[b])

\* In the middle of the pair loop, the test of a pair has failed and
\* another pair has been registered.
C1_Witness ==
  /\ pc = "pairs"
  /\ pair_k < Len(PairList(province_ids))
  /\ \E k \in 1..pair_k : Range(PairList(province_ids)[k]) = fail_pair
  /\ \E a \in DOMAIN neighbors : neighbors[a] # <<>>

\* C2: no identifier is in its own list, in the neighbour map and in the
\* provinces emitted.
C2_NoSelfNeighbor ==
  /\ \A a \in DOMAIN neighbors : ~InSeq(a, neighbors[a])
  /\ \A i \in DOMAIN template : ~InSeq(template[i].id, template[i].neighbors)

\* Three provinces were emitted, each with a neighbour.
C2_Witness ==
  /\ pc = "emitted"
  /\ Len(template) = 3
  /\ \A i \in DOMAIN template : template[i].neighbors # <<>>

\* C9: in the provinces emitted, every neighbour list is in strictly
\* ascending identifier order, so no identifier is in it twice.
C9_SortedUnique ==
  pc = "emitted" =>
    \A i \in DOMAIN template :
      \A k \in 1..(Len(template[i].neighbors) - 1) :
        Ord(template[i].neighbors[k]) < Ord(template[i].neighbors[k + 1])

\* A province was emitted with two neighbours, its first neighbour being
\* later in the province list than the province itself, after a failed
\* test.
C9_Witness ==
  /\ pc = "emitted"
  /\ fail_pair # {}
  /\ \E i \in DOMAIN template :
       /\ Len(template[i].neighbors) = 2
       /\ Ord(template[i].neighbors[1]) > Ord(template[i].id)

\* The geometry of the claims, counted on the unit grid: the unit cells of
\* the area a ring encloses, the unit edges around a set of cells.
XCells(ring) == Min(Xs(ring))..(Max(Xs(ring)) - 1)

YCells(ring) == Min(Ys(ring))..(Max(Ys(ring)) - 1)

Cells(ring) == IF IsRectRing(ring) THEN XCells(ring) \X YCells(ring) ELSE {}

EdgesOfCell(c) ==
  {<<"h", c[1], c[2]>>, <<"h", c[1], c[2] + 1>>,
   <<"v", c[1], c[2]>>, <<"v", c[1] + 1, c[2]>>}

OtherCell(e, c) ==
  IF e[1] = "h"
  THEN (IF c[2] = e[3] THEN <<e[2], e[3] - 1>> ELSE <<e[2], e[3]>>)
  ELSE (IF c[1] = e[2] THEN <<e[2] - 1, e[3]>> ELSE <<e[2], e[3]>>)

\* The unit edges with a cell of S on one side only.
Border(S) ==
  UNION {{e \in EdgesOfCell(c) : OtherCell(e, c) \notin S} : c \in S}

\* The length of the intersection of the two boundaries.
BoundariesCommonLength(r1, r2) ==
  Cardinality(Border(Cells(r1)) \cap Border(Cells(r2)))

\* The pairs of provinces with a polygon each whose test ran without a
\* failure of the geometry library.
TestedPairs ==
  {pr \in (DOMAIN provinces) \X (DOMAIN provinces) :
     /\ pr[1] < pr[2]
     /\ ~Polygon(provinces[pr[1]].coordinates).raises
     /\ ~Polygon(provinces[pr[2]].coordinates).raises
     /\ {provinces[pr[1]].id, provinces[pr[2]].id} # fail_pair}

Registered(i, j) == InSeq(provinces[j].id, neighbors[provinces[i].id])

\* C6: two provinces whose polygons can be made are registered as
\* neighbours exactly when the intersection of their boundaries is longer
\* than 1.0.
C6_BoundariesLongerThanOne ==
  pc = "emitted" =>
    \A pr \in TestedPairs :
      Registered(pr[1], pr[2]) <=>
        BoundariesCommonLength(provinces[pr[1]].coordinates,
                               provinces[pr[2]].coordinates) > 1

\* C10: the map returned has an entry for every province; a province whose
\* polygon cannot be made has an empty list; the pair whose test fails is
\* in neither list; every other pair is registered exactly as in a run
\* over the provinces with a polygon alone and with no failing test.
C10_FailuresAreLocal ==
  pc = "emitted" =>
    LET made == SelectSeq(provinces, LAMBDA p : ~Polygon(p.coordinates).raises)
        alone == detect_neighbors(made, {})
    IN  /\ DOMAIN neighbors = {provinces[i].id : i \in DOMAIN provinces}
        /\ \A i \in DOMAIN provinces :
             Polygon(provinces[i].coordinates).raises => neighbors[provinces[i].id] = <<>>
        /\ \A a, b \in fail_pair : ~InSeq(b, neighbors[a])
        /\ \A i, j \in DOMAIN made :
             {made[i].id, made[j].id} # fail_pair =>
               (InSeq(made[j].id, neighbors[made[i].id])
                  <=> InSeq(made[j].id, alone[made[i].id]))

\* The first province has no polygon, and the two after it are registered
\* as neighbours.
C10_Witness ==
  /\ pc = "emitted"
  /\ Len(provinces) = 3
  /\ Polygon(provinces[1].coordinates).raises
  /\ Registered(2, 3)

====
